---------------------------- MODULE Spec2Model ----------------------------
(***************************************************************************)
(* GoogleDriveNotes: a CLI note application whose pages are encrypted at   *)
(* rest (encryption.py), gated by a password registry (functions.py) and   *)
(* mirrored to Google Drive by background threads (gdrive.py, note.py).    *)
(*                                                                         *)
(* Three specifications share this module:                                 *)
(*   SpecDrive  gdrive.save_file with _upload_file's retry loop and        *)
(*              _update_file, against a remote that may answer any call    *)
(*              with an HttpError;                                         *)
(*   SpecKey    two callers of encryption._load_key on one key path;       *)
(*   Spec       the interactive program: which_notes, _create_page,        *)
(*              _store_password, _delete_page, list_notes and the          *)
(*              background save/delete threads they start.                 *)
(***************************************************************************)
EXTENDS Integers, Sequences, FiniteSets, TLC

VARIABLES
    \* ---- gdrive.save_file / _upload_file / _update_file (SpecDrive)
    sv_pc,          \* position of the save_file call
    sv_path,        \* which write path save_file took
    sv_parent,      \* the parent_folder argument is given (TRUE) or None
    try_counter,    \* _upload_file: try_counter
    wait,           \* argument of the running time.sleep, in slot_time units
    attempts,       \* remote write requests issued by this call
    sleeps,         \* time.sleep calls made by this call
    fails,          \* write requests of this call answered by a retryable error
    firstAnswer,    \* the answer to the first write request of this call
    lastOther,      \* the last error of this call with a status outside the retry list
    result,         \* how the call ended
    calls,          \* save_file calls made so far
    r_parents,      \* remote folders named parent_folder
    r_inside,       \* remote files named file_name inside the first such folder
    r_outside,      \* remote files named file_name elsewhere on the drive
    \* ---- encryption._load_key / _generate_key
    keyfile,        \* content of ./key.key: "absent", "empty" or a key
    lk_pc,          \* position of each caller of _load_key
    lk_new,         \* the key each caller's _generate_key has drawn
    lk_got,         \* what each caller's last _load_key returned
    lk_loads,       \* _load_key calls each caller has made
    key_writes,     \* f.write(key) calls made on the key file so far
    overlapped,     \* a _load_key call has started while another was running
    \* ---- the interactive program (note.py, functions.py)
    pc,             \* position of the main thread
    wn_from,        \* caller of the running which_notes: "main" or "list"
    wn_none,        \* a recursive which_notes result has been dropped
    wn_result,      \* value the outermost which_notes returns
    files,          \* the list files of page names
    disk,           \* content of each file of Storage
    pre_loaded,     \* _preload_password_file.pre_loaded
    convert_key,    \* convert.key
    remote,         \* the remote files of each name, in their folder
    threads,        \* the background threads in flight, in start order
    file_name,      \* list_notes: file_name
    save_thread,    \* list_notes: save_thread is None or a started thread
    sp_data,        \* _store_password: data
    sp_page,        \* _create_page: file_name
    decrypted,      \* pages list_notes has decrypted in place
    exit_how,       \* how the program left
    inputs,         \* menu inputs answered so far that changed the state
    prompt,         \* the page and password of the last _prompt_password call
    \* ---- encryption.convert called on one file (SpecConvert)
    cv_file,        \* content of the file convert is called on
    cv_hist,        \* the convert calls made so far, oldest first
    cv_loads,       \* _load_key calls convert has made
    \* ---- the registry functions called on one registry (SpecRegistry)
    rg_hist         \* the calls made so far, oldest first

drive_vars == <<sv_pc, sv_path, sv_parent, try_counter, wait, attempts, sleeps,
                fails, firstAnswer, lastOther, result, calls, r_parents, r_inside,
                r_outside>>

key_vars == <<keyfile, lk_pc, lk_new, lk_got, lk_loads, key_writes, overlapped>>

\* the interactive program's variables other than convert.key
app_rest == <<pc, wn_from, wn_none, wn_result, files, disk, pre_loaded, remote,
              threads, file_name, save_thread, sp_data, sp_page, decrypted,
              exit_how, inputs, prompt>>

app_vars == <<app_rest, convert_key>>

conv_vars == <<cv_file, cv_hist, cv_loads>>

reg_vars == <<rg_hist>>

fn_vars == <<conv_vars, reg_vars>>

vars == <<drive_vars, key_vars, app_vars, fn_vars>>

---------------------------------------------------------------------------
(* Bounds of the model *)

\* save_file calls made one after the other in one behaviour of SpecDrive
MaxCalls == 2
\* remote objects of one name the initial drive may hold
MaxRemote == 2
\* _load_key calls one caller makes in one behaviour of SpecKey
MaxLoads == 2
\* background threads in flight at once
MaxThreads == 2
\* calls of the registry functions in one behaviour of SpecRegistry
MaxRegistryCalls == 2
\* convert calls in one behaviour of SpecConvert
MaxConverts == 4
\* menu inputs the user answers in one behaviour of Spec
MaxInputs == 3

---------------------------------------------------------------------------
(* gdrive.py: the HTTP answers and their classification *)

\* _upload_file: max_tries
max_tries == 10

\* the status codes _upload_file retries on
RetryStatuses == {403, 500, 503, 502, 504}

\* status codes of HttpErrors outside that list (inputs)
OtherStatuses == {400, 404}

\* an HttpError: its status and whether its content-type is application/json
HttpErrors == [status : RetryStatuses \cup OtherStatuses, json : BOOLEAN]

\* what a write request was answered with: nothing yet, success, or an error
NoAnswer == [status |-> 0, json |-> FALSE]
OkAnswer == [status |-> 200, json |-> FALSE]

\* a classification without the elif branch that inspects the payload
Classify_no_payload_branch(err) ==
    IF err.status \in RetryStatuses THEN "transient" ELSE "other"

\* a classification that retries every error without a JSON payload
Classify_retries_unclassified(err) ==
    IF err.status \in RetryStatuses THEN "transient"
    ELSE IF err.json THEN "permanent"
    ELSE "transient"

\* the except clause of _upload_file: status list first, then the payload
Classify(err) ==
    IF err.status \in RetryStatuses THEN "transient"
    ELSE IF err.json THEN "permanent"
    ELSE "other"

RECURSIVE Pow2(_)
Pow2(n) == IF n = 0 THEN 1 ELSE 2 * Pow2(n - 1)

\* a draw whose upper end is 2**try_counter
BackoffSlots_one_more(tc) == 0 .. Pow2(tc)

\* random.randint(0, 2**try_counter-1): the slots the sleep may last
BackoffSlots(tc) == 0 .. (Pow2(tc) - 1)

\* a loop that allows one attempt too many
LoopContinues_off_by_one(tc) == tc <= max_tries

\* while try_counter < max_tries
LoopContinues(tc) == tc < max_tries

\* a success that does not leave the loop
AfterSuccess_no_break == "upload_try"

\* break after a successful create
AfterSuccess == "done"

---------------------------------------------------------------------------
(* encryption.py: the key file *)

\* the keys Fernet.generate_key() may draw (inputs)
Keys == {"k1", "k2"}

\* the threads or processes that call _load_key on the same path
Callers == {1, 2}

KeyIdle ==
    /\ keyfile = "absent"
    /\ lk_pc = [c \in Callers |-> "idle"]
    /\ lk_new = [c \in Callers |-> "none"]
    /\ lk_got = [c \in Callers |-> "none"]
    /\ lk_loads = [c \in Callers |-> 0]
    /\ key_writes = 0
    /\ overlapped = FALSE

\* caller d is inside a _load_key call
Running(d) == lk_pc[d] \in {"generate", "write", "reread"}

\* a _load_key that generates a key whether the key file exists or not
LoadKeyOpen_always_generates(c) ==
    /\ UNCHANGED <<drive_vars, app_vars, fn_vars>>
    /\ lk_pc[c] \in {"idle", "returned"}
    /\ lk_loads[c] < MaxLoads
    /\ lk_loads' = [lk_loads EXCEPT ![c] = @ + 1]
    /\ lk_pc' = [lk_pc EXCEPT ![c] = "generate"]
    /\ lk_got' = [lk_got EXCEPT ![c] = "none"]
    /\ overlapped' = (overlapped \/ \E d \in Callers \ {c} : Running(d))
    /\ UNCHANGED <<keyfile, lk_new, key_writes>>

\* _load_key: open(file, 'rb') and f.read(), or FileNotFoundError
LoadKeyOpen(c) ==
    /\ UNCHANGED <<drive_vars, app_vars, fn_vars>>
    /\ lk_pc[c] \in {"idle", "returned"}
    /\ lk_loads[c] < MaxLoads
    /\ lk_loads' = [lk_loads EXCEPT ![c] = @ + 1]
    /\ IF keyfile = "absent"
       THEN /\ lk_pc' = [lk_pc EXCEPT ![c] = "generate"]
            /\ lk_got' = [lk_got EXCEPT ![c] = "none"]
       ELSE /\ lk_pc' = [lk_pc EXCEPT ![c] = "returned"]
            /\ lk_got' = [lk_got EXCEPT ![c] = keyfile]
    /\ overlapped' = (overlapped \/ \E d \in Callers \ {c} : Running(d))
    /\ UNCHANGED <<keyfile, lk_new, key_writes>>

\* _generate_key: Fernet.generate_key() and open(file, 'wb'), which creates
\* the file or truncates it
GenerateKeyOpen(c, k) ==
    /\ UNCHANGED <<drive_vars, app_vars, fn_vars>>
    /\ lk_pc[c] = "generate"
    /\ lk_new' = [lk_new EXCEPT ![c] = k]
    /\ keyfile' = "empty"
    /\ lk_pc' = [lk_pc EXCEPT ![c] = "write"]
    /\ UNCHANGED <<lk_got, lk_loads, key_writes, overlapped>>

\* _generate_key: f.write(key), flushed when the with block closes the file
GenerateKeyWrite(c) ==
    /\ UNCHANGED <<drive_vars, app_vars, fn_vars>>
    /\ lk_pc[c] = "write"
    /\ keyfile' = lk_new[c]
    /\ key_writes' = key_writes + 1
    /\ lk_pc' = [lk_pc EXCEPT ![c] = "reread"]
    /\ UNCHANGED <<lk_new, lk_got, lk_loads, overlapped>>

\* _load_key: the second open(file, 'rb') and f.read()
LoadKeyReread(c) ==
    /\ UNCHANGED <<drive_vars, app_vars, fn_vars>>
    /\ lk_pc[c] = "reread"
    /\ lk_got' = [lk_got EXCEPT ![c] = keyfile]
    /\ lk_pc' = [lk_pc EXCEPT ![c] = "returned"]
    /\ UNCHANGED <<keyfile, lk_new, lk_loads, key_writes, overlapped>>

---------------------------------------------------------------------------
(* gdrive.save_file *)

\* _get_ids_from_name for the file: inside the parent when one is given
FileIds(parent) == IF parent THEN r_inside ELSE r_inside + r_outside

DriveFresh ==
    /\ sv_pc = "idle" /\ sv_path = "none" /\ sv_parent = TRUE
    /\ try_counter = 0 /\ wait = 0 /\ attempts = 0 /\ sleeps = 0 /\ fails = 0
    /\ firstAnswer = NoAnswer /\ lastOther = NoAnswer /\ result = "none"

\* a save_file that creates the file also when one of that name exists
SaveFile_creates_beside_existing(parent, listOk) ==
    /\ UNCHANGED <<key_vars, app_vars, fn_vars>>
    /\ sv_pc \in {"idle", "done"}
    /\ calls < MaxCalls
    /\ calls' = calls + 1
    /\ sv_parent' = parent
    /\ try_counter' = 0 /\ wait' = 0 /\ attempts' = 0 /\ sleeps' = 0
    /\ fails' = 0 /\ firstAnswer' = NoAnswer /\ lastOther' = NoAnswer
    /\ UNCHANGED <<r_parents, r_inside, r_outside>>
    /\ IF ~listOk
       THEN sv_pc' = "done" /\ sv_path' = "none" /\ result' = "raised"
       ELSE IF parent /\ r_parents # 1
       THEN sv_pc' = "done" /\ sv_path' = "skip" /\ result' = "skipped"
       ELSE IF FileIds(parent) > 1
       THEN sv_pc' = "done" /\ sv_path' = "skip" /\ result' = "skipped"
       ELSE sv_pc' = "upload_try" /\ sv_path' = "create" /\ result' = "none"

\* save_file up to its choice of write path; listOk = FALSE when a list
\* request raises HttpError, which _get_ids_from_name logs and re-raises
SaveFile(parent, listOk) ==
    /\ UNCHANGED <<key_vars, app_vars, fn_vars>>
    /\ sv_pc \in {"idle", "done"}
    /\ calls < MaxCalls
    /\ calls' = calls + 1
    /\ sv_parent' = parent
    /\ try_counter' = 0 /\ wait' = 0 /\ attempts' = 0 /\ sleeps' = 0
    /\ fails' = 0 /\ firstAnswer' = NoAnswer /\ lastOther' = NoAnswer
    /\ UNCHANGED <<r_parents, r_inside, r_outside>>
    /\ IF ~listOk
       THEN sv_pc' = "done" /\ sv_path' = "none" /\ result' = "raised"
       ELSE IF parent /\ r_parents # 1
       THEN sv_pc' = "done" /\ sv_path' = "skip" /\ result' = "skipped"
       ELSE IF FileIds(parent) > 1
       THEN sv_pc' = "done" /\ sv_path' = "skip" /\ result' = "skipped"
       ELSE IF FileIds(parent) = 0
       THEN sv_pc' = "upload_try" /\ sv_path' = "create" /\ result' = "none"
       ELSE sv_pc' = "update" /\ sv_path' = "update" /\ result' = "none"

NoteFirst(answer) == firstAnswer' = IF attempts = 0 THEN answer ELSE firstAnswer

\* the HttpError err is bound in the except clause: its status is in the
\* retry list or not
NoteLast(err) == lastOther' = IF err.status \in RetryStatuses THEN lastOther ELSE err

\* _upload_file: the loop test; leaving the loop with file None prints
\* 'Unable to upload file'
UploadLoopExit ==
    /\ UNCHANGED <<key_vars, app_vars, fn_vars>>
    /\ sv_pc = "upload_try"
    /\ ~LoopContinues(try_counter)
    /\ sv_pc' = "done"
    /\ result' = "unable"
    /\ UNCHANGED <<sv_path, sv_parent, try_counter, wait, attempts, sleeps, fails,
                   firstAnswer, lastOther, calls, r_parents, r_inside, r_outside>>

\* _upload_file: one files().create(...).execute() that succeeds
UploadSucceeds ==
    /\ UNCHANGED <<key_vars, app_vars, fn_vars>>
    /\ sv_pc = "upload_try"
    /\ LoopContinues(try_counter)
    /\ attempts' = attempts + 1
    /\ NoteFirst(OkAnswer)
    /\ sv_pc' = AfterSuccess
    /\ result' = "ok"
    /\ IF sv_parent
       THEN r_inside' = r_inside + 1 /\ UNCHANGED r_outside
       ELSE r_outside' = r_outside + 1 /\ UNCHANGED r_inside
    /\ UNCHANGED <<sv_path, sv_parent, try_counter, wait, sleeps, fails, calls,
                   r_parents, lastOther>>

\* _upload_file: one create that raises HttpError err
UploadFails(err) ==
    /\ UNCHANGED <<key_vars, app_vars, fn_vars>>
    /\ sv_pc = "upload_try"
    /\ LoopContinues(try_counter)
    /\ attempts' = attempts + 1
    /\ NoteFirst(err)
    /\ NoteLast(err)
    /\ UNCHANGED <<sv_path, sv_parent, calls, r_parents, r_inside, r_outside>>
    /\ CASE Classify(err) = "transient" ->
              /\ try_counter' = try_counter + 1
              /\ fails' = fails + 1
              /\ sleeps' = sleeps + 1
              /\ \E k \in BackoffSlots(try_counter + 1) : wait' = k
              /\ sv_pc' = "upload_sleep"
              /\ UNCHANGED result
         [] Classify(err) = "permanent" ->
              /\ sv_pc' = "done"
              /\ result' = "failed"
              /\ UNCHANGED <<try_counter, fails, sleeps, wait>>
         [] OTHER ->
              /\ sv_pc' = "done"
              /\ result' = "raised"
              /\ UNCHANGED <<try_counter, fails, sleeps, wait>>

\* time.sleep returns and the while loop is entered again
UploadWake ==
    /\ UNCHANGED <<key_vars, app_vars, fn_vars>>
    /\ sv_pc = "upload_sleep"
    /\ sv_pc' = "upload_try"
    /\ wait' = 0
    /\ UNCHANGED <<sv_path, sv_parent, try_counter, attempts, sleeps, fails,
                   firstAnswer, lastOther, result, calls, r_parents, r_inside,
                   r_outside>>

\* _update_file: files().get and files().update in one try block; ok = FALSE
\* when either raises HttpError err, which is printed and None returned
UpdateFile(ok, err) ==
    /\ UNCHANGED <<key_vars, app_vars, fn_vars>>
    /\ sv_pc = "update"
    /\ attempts' = attempts + 1
    /\ NoteFirst(IF ok THEN OkAnswer ELSE err)
    /\ IF ok THEN UNCHANGED lastOther ELSE NoteLast(err)
    /\ fails' = IF ~ok /\ Classify(err) = "transient" THEN fails + 1 ELSE fails
    /\ sv_pc' = "done"
    /\ result' = IF ok THEN "ok" ELSE "failed"
    /\ UNCHANGED <<sv_path, sv_parent, try_counter, wait, sleeps, calls,
                   r_parents, r_inside, r_outside>>

\* delete_file: the files _get_ids_from_name lists for deletion, inside the
\* first folder named parent_folder and elsewhere; with no parent_folder,
\* and with no folder of that name, parent is None and the whole drive is
\* searched
DeleteTargets(parent) ==
    IF parent /\ r_parents >= 1
    THEN [inside |-> r_inside, outside |-> 0]
    ELSE [inside |-> r_inside, outside |-> r_outside]

\* delete_file(file_name, parent_folder, False) as one call: listOk = FALSE
\* when a list request raises HttpError; the delete requests are made one
\* after the other and the first that raises ends the call
DeleteFile(parent, listOk) ==
    /\ UNCHANGED <<key_vars, app_vars, fn_vars>>
    /\ sv_pc \in {"idle", "done"}
    /\ calls < MaxCalls
    /\ calls' = calls + 1
    /\ sv_parent' = parent
    /\ sv_path' = "delete"
    /\ sv_pc' = "done"
    /\ try_counter' = 0 /\ wait' = 0 /\ sleeps' = 0 /\ fails' = 0
    /\ firstAnswer' = NoAnswer /\ lastOther' = NoAnswer
    /\ UNCHANGED r_parents
    /\ IF ~listOk
       THEN /\ result' = "raised" /\ attempts' = 0
            /\ UNCHANGED <<r_inside, r_outside>>
       ELSE \E gone_inside \in 0 .. DeleteTargets(parent).inside,
               gone_outside \in 0 .. DeleteTargets(parent).outside :
              /\ r_inside' = r_inside - gone_inside
              /\ r_outside' = r_outside - gone_outside
              /\ IF /\ gone_inside = DeleteTargets(parent).inside
                    /\ gone_outside = DeleteTargets(parent).outside
                 THEN result' = "ok" /\ attempts' = gone_inside + gone_outside
                 ELSE /\ result' = "raised"
                      /\ attempts' = gone_inside + gone_outside + 1

---------------------------------------------------------------------------
(* encryption.py: file contents, Fernet and convert *)

\* A file's bytes: a payload (note lines or registry lines) under the Fernet
\* layers applied to it, outermost first; ex = FALSE when there is no file.
Absent == [ex |-> FALSE, data |-> <<>>, layers |-> <<>>]
EmptyFile == [ex |-> TRUE, data |-> <<>>, layers |-> <<>>]
Plain(d) == [ex |-> TRUE, data |-> d, layers |-> <<>>]

\* a test that takes no file for empty
IsEmpty_never(c) == FALSE

\* file_data == b''
IsEmpty(c) == c.ex /\ c.data = <<>> /\ c.layers = <<>>

\* a Fernet token of some plaintext under key k and nothing else
IsCipherBlob(c, k) == c.ex /\ c.layers = <<k>>

\* fer.encrypt(file_data)
FernetEncrypt(c, k) == [c EXCEPT !.layers = <<k>> \o @]

\* a decrypt that accepts the token of any key
FernetValid_any_key(c, k) == c.layers # <<>>

\* fer.decrypt(file_data) succeeds: the bytes are a token made under k
FernetValid(c, k) == c.layers # <<>> /\ Head(c.layers) = k

\* fer.decrypt(file_data) when it succeeds
FernetDecrypt(c, k) == [c EXCEPT !.layers = Tail(@)]

\* a write that leaves the end of the old bytes after shorter new bytes
WriteBack_no_truncate(old, new) ==
    IF Len(new.layers) < Len(old.layers)
    THEN [new EXCEPT !.data = Append(@, 0)]
    ELSE new

\* f.seek(0), f.write(converted_data), f.truncate() on a file that held old
WriteBack(old, new) == new

\* convert(file, conversion_type, path, storage_type) on a file of content c
\* with convert.key = k: the exception raised ("none" when it returns), the
\* content the file is left with and the value returned (Absent for None)
Convert(c, k, conversion_type, storage_type) ==
    IF ~c.ex
    THEN [exc |-> "IOError", file |-> c, ret |-> Absent]
    ELSE IF IsEmpty(c)
    THEN [exc |-> "none", file |-> c, ret |-> c]
    ELSE IF conversion_type = "decrypt" /\ ~FernetValid(c, k)
    THEN [exc |-> "InvalidToken", file |-> c, ret |-> Absent]
    ELSE LET converted_data == IF conversion_type = "encrypt"
                               THEN FernetEncrypt(c, k)
                               ELSE FernetDecrypt(c, k)
         IN IF storage_type = "write"
            THEN [exc |-> "none", file |-> WriteBack(c, converted_data),
                  ret |-> Absent]
            ELSE [exc |-> "none", file |-> c, ret |-> converted_data]

\* a convert that loads the key on every call
KeyChoices_no_cache == IF keyfile \in Keys THEN {keyfile} ELSE Keys

\* convert.key after 'if convert.key is None: convert.key = _load_key()': the
\* cached key, else the key file's content, else a key _generate_key draws
KeyChoices ==
    IF convert_key # "none" THEN {convert_key}
    ELSE IF keyfile \in Keys THEN {keyfile}
    ELSE Keys

\* the effect of that load on convert.key and on the key file
KeyLoaded(k) ==
    /\ convert_key' = k
    /\ keyfile' = IF keyfile = "absent" THEN k ELSE keyfile
    /\ key_writes' = IF convert_key = "none" /\ keyfile = "absent"
                     THEN key_writes + 1 ELSE key_writes
    /\ UNCHANGED <<lk_pc, lk_new, lk_got, lk_loads, overlapped>>

\* verify_password: the longest password it accepts
MaxPasswordLen == 1024

\* the passwords a user may type (inputs): "max" has exactly 1024 characters
\* and "long" has 1025
Passwords == {"pw1", "pw2"}
PromptInputs == Passwords \cup {"long"}
PasswordLen(p) ==
    CASE p = "long" -> MaxPasswordLen + 1
      [] p = "max" -> MaxPasswordLen
      [] OTHER -> 3

\* the salts os.urandom may lead to (inputs)
Salts == {"s1"}

\* hashlib.pbkdf2_hmac('sha512', word, salt, 100000), hex-encoded: injective
\* in the word for each salt
Derive(word, salt) == <<word, salt>>

\* get_password_hash(word) with the salt drawn: salt + pwdhash, a string of
\* which the salt is the first 64 characters
get_password_hash(word, salt) == <<salt>> \o Derive(word, salt)

\* stored_password[:64] and stored_password[64:]
StoredSalt(stored) == IF stored = <<>> THEN "" ELSE Head(stored)

\* a verify_password that compares with the whole stored string
StoredHash_whole_string(stored) == stored

StoredHash(stored) == IF stored = <<>> THEN <<>> ELSE Tail(stored)

\* a length check that also rejects a password of exactly 1024 characters
TooLong_off_by_one(provided_password) ==
    PasswordLen(provided_password) >= MaxPasswordLen

\* len(provided_password) > 1024
TooLong(provided_password) == PasswordLen(provided_password) > MaxPasswordLen

\* a comparison that accepts every password
verify_password_accepts_all(provided_password, stored_password) == TRUE

\* verify_password(provided_password, stored_password) from 'salt =' on: the
\* derivation and the comparison
verify_password(provided_password, stored_password) ==
    Derive(provided_password, StoredSalt(stored_password))
        = StoredHash(stored_password)

\* verify_password as a whole: the exception raised ("none" when it
\* returns), the value returned and the key derivations it ran
VerifyPassword(provided_password, stored_password) ==
    IF TooLong(provided_password)
    THEN [exc |-> "ValueError", ret |-> FALSE, derived |-> 0]
    ELSE [exc |-> "none",
          ret |-> verify_password(provided_password, stored_password),
          derived |-> 1]

---------------------------------------------------------------------------
(* functions.py: the password registry *)

\* the page names a user may type (inputs) and the registry file
Pages == {"a.txt", "b.txt"}
PwFile == "password.txt"
FileNames == Pages \cup {PwFile}

\* a page name with a tab character in it: input() returns it as typed
TabName == "x\ty.txt"

\* name.split('\t'): the page names above hold no tab
SplitTab(name) == IF name = TabName THEN <<"x", "y.txt">> ELSE <<name>>

\* line = file_name + '\t' + hash, given as the fields line.split('\t')
\* finds in it, each field a string of its own
RegistryLine(page, stored) ==
    [i \in 1 .. Len(SplitTab(page)) |-> <<SplitTab(page)[i]>>] \o <<stored>>

\* s[0] and s[1] of s = line.split('\t')
LineName(line) == line[1]
LineStored(line) == line[2]

\* _prompt_password: files = {s[0]: s[1] ...}; the later line of a name wins
RECURSIVE RegistryLookup(_, _)
RegistryLookup(data, page) ==
    IF data = <<>> THEN [found |-> FALSE, stored |-> <<>>]
    ELSE LET last == data[Len(data)]
         IN IF LineName(last) = <<page>>
            THEN [found |-> TRUE, stored |-> LineStored(last)]
            ELSE RegistryLookup(SubSeq(data, 1, Len(data) - 1), page)

\* _prompt_password(file_name) typed password pw, on registry file content c
\* with key k: "True", "False", or the exception raised
PromptPassword(page, pw, c, k) ==
    LET r == Convert(c, k, "decrypt", "return")
        entry == RegistryLookup(r.ret.data, page)
    IN IF r.exc # "none" THEN r.exc
       ELSE IF ~entry.found THEN "True"
       ELSE LET v == VerifyPassword(pw, entry.stored)
            IN IF v.exc # "none" THEN v.exc
               ELSE IF v.ret THEN "True"
               ELSE "False"

\* what getpass returned in that call: the password typed for page, or
\* "none" when the page has no line and no password is asked for
NoPrompt == [page |-> "none", pw |-> "none"]
Prompted(page, pw, c, k) ==
    [page |-> page,
     pw |-> IF RegistryLookup(Convert(c, k, "decrypt", "return").ret.data,
                              page).found
            THEN pw ELSE "none"]

\* download_file(password_file, 'Password', 'Storage') into local content c:
\* one remote file is copied, none raises FileNotFoundError and an empty
\* file is created, several are stored under their ids
Downloaded(remoteFiles, c) ==
    IF Len(remoteFiles) = 0 THEN EmptyFile
    ELSE IF Len(remoteFiles) = 1 THEN remoteFiles[1]
    ELSE c

\* a _preload_password_file that downloads on every call
Preload_every_call(d, flag) ==
    [d EXCEPT ![PwFile] = Downloaded(remote[PwFile], d[PwFile])]

\* _preload_password_file() on Storage d with the flag pre_loaded = flag
Preload(d, flag) ==
    IF flag THEN d ELSE [d EXCEPT ![PwFile] = Downloaded(remote[PwFile], d[PwFile])]

---------------------------------------------------------------------------
(* note.py and functions.py: the main thread *)

\* threading.Thread(target=gdrive.save_file, args=(file, folder, path[, data]))
SaveThread(src, file, given, bytes) ==
    [kind |-> "save", src |-> src, file |-> file, given |-> given,
     bytes |-> bytes, tpc |-> "start", ids |-> 0]

\* threading.Thread(target=gdrive.delete_file, args=(file, 'Notes', False))
DeleteThread(file) ==
    [kind |-> "delete", src |-> "_delete_page", file |-> file, given |-> FALSE,
     bytes |-> Absent, tpc |-> "start", ids |-> 0]

RemoveAt(seq, i) == SubSeq(seq, 1, i - 1) \o SubSeq(seq, i + 1, Len(seq))

\* the user answers one more input() or getpass()
Answer == inputs < MaxInputs /\ inputs' = inputs + 1

InFiles(name) == \E i \in 1 .. Len(files) : files[i] = name

\* an exception that leaves which_notes: list_notes' finally clause runs when
\* which_notes was called from list_notes, else the program ends
RaiseInWhich ==
    /\ pc' = IF wn_from = "list" THEN "finally" ELSE "exited"
    /\ exit_how' = "exception"

\* save_thread is None, or save_thread.join() has returned
SaveThreadJoined ==
    \/ save_thread = "None"
    \/ \A i \in 1 .. Len(threads) : threads[i].src # "list_notes"

\* main: which_notes(file_path, files), up to its first input()
MainCallsWhichNotes ==
    /\ UNCHANGED <<drive_vars, fn_vars>>
    /\ UNCHANGED <<inputs, prompt>>
    /\ pc = "start"
    /\ disk' = Preload(disk, pre_loaded)
    /\ pre_loaded' = TRUE
    /\ pc' = "which"
    /\ wn_from' = "main"
    /\ wn_none' = FALSE
    /\ UNCHANGED <<wn_result, files, convert_key, remote, threads, file_name,
                   save_thread, sp_data, sp_page, decrypted, exit_how, key_vars>>

\* which_notes: inp == 'q', sys.exit()
WhichNotesQuit ==
    /\ UNCHANGED <<drive_vars, fn_vars>>
    /\ UNCHANGED <<inputs, prompt>>
    /\ pc = "which"
    /\ pc' = IF wn_from = "list" THEN "finally" ELSE "exited"
    /\ exit_how' = IF wn_from = "list" THEN "q_which" ELSE "q_main"
    /\ UNCHANGED <<wn_from, wn_none, wn_result, files, disk, pre_loaded,
                   convert_key, remote, threads, file_name, save_thread, sp_data,
                   sp_page, decrypted, key_vars>>

\* which_notes: an input that only leads to 'return which_notes(...)': no
\* valid note number, 'a', 'n' with the name of an existing page, 'd' with no
\* valid page number
WhichNotesAgain ==
    /\ UNCHANGED <<drive_vars, fn_vars>>
    /\ UNCHANGED <<inputs, prompt>>
    /\ pc = "which"
    /\ disk' = Preload(disk, pre_loaded)
    /\ pre_loaded' = TRUE
    /\ UNCHANGED <<pc, wn_from, wn_none, wn_result, files, convert_key, remote,
                   threads, file_name, save_thread, sp_data, sp_page, decrypted,
                   exit_how, key_vars>>

\* _create_page from open(path, 'a') on, and the return into which_notes
CreatePageFile(d, page, started) ==
    /\ disk' = Preload([d EXCEPT ![page] = IF @.ex THEN @ ELSE EmptyFile],
                       pre_loaded)
    /\ pre_loaded' = TRUE
    /\ files' = Append(files, page)
    /\ threads' = threads \o started
                    \o <<SaveThread("_create_page", page, FALSE, Absent)>>
    /\ pc' = "which"

\* which_notes 'n', _create_page with a new name and no password
CreatePage(page) ==
    /\ UNCHANGED <<drive_vars, fn_vars>>
    /\ Answer
    /\ pc = "which"
    /\ ~InFiles(page)
    /\ Len(threads) + 1 <= MaxThreads
    /\ CreatePageFile(disk, page, <<>>)
    /\ UNCHANGED <<wn_from, wn_none, wn_result, convert_key, remote, file_name,
                   save_thread, sp_data, sp_page, decrypted, exit_how, key_vars,
                   prompt>>

\* which_notes 'n', _create_page with a new name and a confirmed password of
\* accepted length: _store_password up to data.append(line)
CreatePageWithPassword(page, pw, salt) ==
    /\ UNCHANGED <<drive_vars, fn_vars>>
    /\ Answer
    /\ pc = "which"
    /\ ~InFiles(page)
    /\ PasswordLen(pw) <= MaxPasswordLen
    /\ \E k \in KeyChoices :
          /\ KeyLoaded(k)
          /\ LET r == Convert(disk[PwFile], k, "decrypt", "return")
             IN IF r.exc # "none"
                THEN /\ RaiseInWhich
                     /\ UNCHANGED <<sp_data, sp_page>>
                ELSE /\ sp_data' = Append(r.ret.data,
                                RegistryLine(page, get_password_hash(pw, salt)))
                     /\ sp_page' = page
                     /\ pc' = "sp_write"
                     /\ UNCHANGED exit_how
    /\ UNCHANGED <<wn_from, wn_none, wn_result, files, disk, pre_loaded, remote,
                   threads, file_name, save_thread, decrypted, prompt>>

\* _store_password: open(password_file, 'w') and f.writelines(...)
StorePasswordWrite ==
    /\ UNCHANGED <<drive_vars, fn_vars>>
    /\ UNCHANGED <<inputs, prompt>>
    /\ pc = "sp_write"
    /\ disk' = [disk EXCEPT ![PwFile] = Plain(sp_data)]
    /\ pc' = "sp_encrypt"
    /\ UNCHANGED <<wn_from, wn_none, wn_result, files, pre_loaded, convert_key,
                   remote, threads, file_name, save_thread, sp_data, sp_page,
                   decrypted, exit_how, key_vars>>

\* _store_password: convert(password_file, 'encrypt', 'Storage', 'write') and
\* the upload thread; then the rest of _create_page
StorePasswordEncrypt ==
    /\ UNCHANGED <<drive_vars, fn_vars>>
    /\ UNCHANGED <<inputs, prompt>>
    /\ pc = "sp_encrypt"
    /\ Len(threads) + 2 <= MaxThreads
    /\ \E k \in KeyChoices :
          /\ KeyLoaded(k)
          /\ LET r == Convert(disk[PwFile], k, "encrypt", "write")
             IN CreatePageFile([disk EXCEPT ![PwFile] = r.file], sp_page,
                    <<SaveThread("_store_password", PwFile, FALSE, Absent)>>)
    /\ sp_data' = <<>>
    /\ sp_page' = "none"
    /\ UNCHANGED <<wn_from, wn_none, wn_result, remote, file_name, save_thread,
                   decrypted, exit_how>>

\* which_notes 'd', _delete_page with page number i and typed password pw
DeletePage(i, pw) ==
    /\ UNCHANGED <<drive_vars, fn_vars>>
    /\ Answer
    /\ pc = "which"
    /\ i \in 1 .. Len(files)
    /\ \E k \in KeyChoices :
          /\ KeyLoaded(k)
          /\ prompt' = Prompted(files[i], pw, disk[PwFile], k)
          /\ LET page == files[i]
                 ok == PromptPassword(page, pw, disk[PwFile], k)
             IN CASE ok = "True" /\ disk[page].ex ->
                       /\ Len(threads) + 1 <= MaxThreads
                       /\ disk' = Preload([disk EXCEPT ![page] = Absent], pre_loaded)
                       /\ pre_loaded' = TRUE
                       /\ files' = RemoveAt(files, i)
                       /\ threads' = Append(threads, DeleteThread(page))
                       /\ UNCHANGED <<pc, exit_how>>
                  [] ok = "False" ->
                       /\ disk' = Preload(disk, pre_loaded)
                       /\ pre_loaded' = TRUE
                       /\ UNCHANGED <<pc, exit_how, files, threads>>
                  [] OTHER ->
                       /\ RaiseInWhich
                       /\ UNCHANGED <<disk, pre_loaded, files, threads>>
    /\ UNCHANGED <<wn_from, wn_none, wn_result, remote, file_name, save_thread,
                   sp_data, sp_page, decrypted>>

\* the value of the outermost which_notes call when an inner call returns
\* page: None once the result of a recursive call has been dropped
WhichNotesValue(page) == IF wn_none THEN "None" ELSE page

\* which_notes with a valid page number i and typed password pw
SelectPage(i, pw) ==
    /\ UNCHANGED <<drive_vars, fn_vars>>
    /\ Answer
    /\ pc = "which"
    /\ i \in 1 .. Len(files)
    /\ \E k \in KeyChoices :
          /\ KeyLoaded(k)
          /\ prompt' = Prompted(files[i], pw, disk[PwFile], k)
          /\ LET page == files[i]
                 ok == PromptPassword(page, pw, disk[PwFile], k)
             IN CASE ok = "True" ->
                       /\ wn_result' = WhichNotesValue(page)
                       /\ pc' = "wn_return"
                       /\ UNCHANGED <<wn_none, disk, pre_loaded, exit_how>>
                  [] ok = "False" ->
                       /\ wn_none' = TRUE
                       /\ disk' = Preload(disk, pre_loaded)
                       /\ pre_loaded' = TRUE
                       /\ UNCHANGED <<pc, wn_result, exit_how>>
                  [] OTHER ->
                       /\ RaiseInWhich
                       /\ UNCHANGED <<wn_none, wn_result, disk, pre_loaded>>
    /\ UNCHANGED <<wn_from, files, remote, threads, file_name, save_thread,
                   sp_data, sp_page, decrypted>>

\* main: list_notes(file_name, ...) with the value which_notes returned, up
\* to the first input(): the decrypt of line 16 is outside the try block
ListNotesEnter ==
    /\ UNCHANGED <<drive_vars, fn_vars>>
    /\ UNCHANGED <<inputs, prompt>>
    /\ pc = "wn_return"
    /\ wn_from = "main"
    /\ file_name' = wn_result
    /\ save_thread' = "None"
    /\ IF wn_result = "None"
       THEN /\ pc' = "exited"
            /\ exit_how' = "exception"
            /\ UNCHANGED <<disk, decrypted, convert_key, key_vars>>
       ELSE \E k \in KeyChoices :
              /\ KeyLoaded(k)
              /\ LET r == Convert(disk[wn_result], k, "decrypt", "write")
                 IN IF r.exc # "none"
                    THEN /\ pc' = "exited"
                         /\ exit_how' = "exception"
                         /\ UNCHANGED <<disk, decrypted>>
                    ELSE /\ disk' = [disk EXCEPT ![wn_result] = r.file]
                         /\ decrypted' = decrypted \cup {wn_result}
                         /\ pc' = "list_menu"
                         /\ UNCHANGED exit_how
    /\ UNCHANGED <<wn_from, wn_none, wn_result, files, pre_loaded, remote,
                   threads, sp_data, sp_page>>

\* list_notes 'n': file_name = which_notes(...) has returned; the decrypt of
\* line 37
ListNotesSwitched ==
    /\ UNCHANGED <<drive_vars, fn_vars>>
    /\ UNCHANGED <<inputs, prompt>>
    /\ pc = "wn_return"
    /\ wn_from = "list"
    /\ file_name' = wn_result
    /\ IF wn_result = "None"
       THEN /\ pc' = "finally"
            /\ exit_how' = "exception"
            /\ UNCHANGED <<disk, decrypted, convert_key, key_vars>>
       ELSE \E k \in KeyChoices :
              /\ KeyLoaded(k)
              /\ LET r == Convert(disk[wn_result], k, "decrypt", "write")
                 IN IF r.exc # "none"
                    THEN /\ pc' = "finally"
                         /\ exit_how' = "exception"
                         /\ UNCHANGED <<disk, decrypted>>
                    ELSE /\ disk' = [disk EXCEPT ![wn_result] = r.file]
                         /\ decrypted' = decrypted \cup {wn_result}
                         /\ pc' = "list_join"
                         /\ UNCHANGED exit_how
    /\ UNCHANGED <<wn_from, wn_none, wn_result, files, pre_loaded, remote,
                   threads, save_thread, sp_data, sp_page>>

\* list_notes: inp == 'q', sys.exit()
ListNotesQuit ==
    /\ UNCHANGED <<drive_vars, fn_vars>>
    /\ UNCHANGED <<inputs, prompt>>
    /\ pc = "list_menu"
    /\ pc' = "finally"
    /\ exit_how' = "q_note"
    /\ UNCHANGED <<wn_from, wn_none, wn_result, files, disk, pre_loaded,
                   convert_key, remote, threads, file_name, save_thread, sp_data,
                   sp_page, decrypted, key_vars>>

\* list_notes: inp == 'n': the encrypt of line 35 and which_notes up to its
\* first input()
ListNotesSelectPage ==
    /\ UNCHANGED <<drive_vars, fn_vars>>
    /\ Answer
    /\ pc = "list_menu"
    /\ \E k \in KeyChoices :
          /\ KeyLoaded(k)
          /\ LET r == Convert(disk[file_name], k, "encrypt", "write")
             IN IF r.exc # "none"
                THEN /\ pc' = "finally"
                     /\ exit_how' = "exception"
                     /\ UNCHANGED <<disk, pre_loaded, wn_from, wn_none>>
                ELSE /\ disk' = Preload([disk EXCEPT ![file_name] = r.file],
                                        pre_loaded)
                     /\ pre_loaded' = TRUE
                     /\ pc' = "which"
                     /\ wn_from' = "list"
                     /\ wn_none' = FALSE
                     /\ UNCHANGED exit_how
    /\ UNCHANGED <<wn_result, files, remote, threads, file_name, save_thread,
                   sp_data, sp_page, decrypted, prompt>>

\* the note operations of functionDict on the content of the open page
EditOps == {"a", "d", "p", "other"}
Edited(c, op) ==
    CASE op = "a" -> [c EXCEPT !.data = Append(@, 1)]
      [] op = "d" -> [c EXCEPT !.data = IF @ = <<>> THEN @ ELSE Tail(@)]
      [] op = "p" -> EmptyFile
      [] OTHER -> c

\* list_notes: any other input, functionDict.get(inp, ...)(path)
ListNotesEdit(op) ==
    /\ UNCHANGED <<drive_vars, fn_vars>>
    /\ Answer
    /\ pc = "list_menu"
    /\ disk' = [disk EXCEPT ![file_name] = Edited(@, op)]
    /\ pc' = "list_join"
    /\ UNCHANGED <<wn_from, wn_none, wn_result, files, pre_loaded, convert_key,
                   remote, threads, file_name, save_thread, sp_data, sp_page,
                   decrypted, exit_how, key_vars, prompt>>

\* list_notes lines 41-47: join the previous save thread, encrypt the page
\* into encrypted_data and start the next save thread
ListNotesSave ==
    /\ UNCHANGED <<drive_vars, fn_vars>>
    /\ UNCHANGED <<inputs, prompt>>
    /\ pc = "list_join"
    /\ SaveThreadJoined
    /\ Len(threads) + 1 <= MaxThreads
    /\ \E k \in KeyChoices :
          /\ KeyLoaded(k)
          /\ LET r == Convert(disk[file_name], k, "encrypt", "return")
             IN IF r.exc # "none"
                THEN /\ pc' = "finally"
                     /\ exit_how' = "exception"
                     /\ UNCHANGED <<threads, save_thread>>
                ELSE /\ threads' = Append(threads,
                            SaveThread("list_notes", file_name, TRUE, r.ret))
                     /\ save_thread' = "set"
                     /\ pc' = "list_menu"
                     /\ UNCHANGED exit_how
    /\ UNCHANGED <<wn_from, wn_none, wn_result, files, disk, pre_loaded, remote,
                   file_name, sp_data, sp_page, decrypted>>

\* list_notes: the finally clause, convert(file_name, 'encrypt', ...)
ListNotesFinally ==
    /\ UNCHANGED <<drive_vars, fn_vars>>
    /\ UNCHANGED <<inputs, prompt>>
    /\ pc = "finally"
    /\ pc' = "exited"
    /\ IF file_name = "None"
       THEN UNCHANGED <<disk, convert_key, key_vars>>
       ELSE \E k \in KeyChoices :
              /\ KeyLoaded(k)
              /\ disk' = [disk EXCEPT ![file_name] =
                            Convert(@, k, "encrypt", "write").file]
    /\ UNCHANGED <<wn_from, wn_none, wn_result, files, pre_loaded, remote,
                   threads, file_name, save_thread, sp_data, sp_page, decrypted,
                   exit_how>>

---------------------------------------------------------------------------
(* The background threads: gdrive.save_file and gdrive.delete_file *)

\* save_file / delete_file: _get_ids_from_name for the file
ThreadQuery(i) ==
    /\ UNCHANGED <<drive_vars, fn_vars>>
    /\ UNCHANGED <<inputs, prompt>>
    /\ i \in 1 .. Len(threads)
    /\ threads[i].tpc = "start"
    /\ threads' = [threads EXCEPT ![i].tpc = "queried",
                                  ![i].ids = Len(remote[threads[i].file])]
    /\ UNCHANGED <<pc, wn_from, wn_none, wn_result, files, disk, pre_loaded,
                   convert_key, remote, file_name, save_thread, sp_data, sp_page,
                   decrypted, exit_how, key_vars>>

\* the media body of the request: the data given, else the local file as
\* MediaFileUpload reads it now
Payload(t) == IF t.given THEN t.bytes ELSE disk[t.file]

\* the remote files of t's name once t's request has been served; the
\* requests are taken to succeed (their failures are SpecDrive's subject)
Served(t, there) ==
    IF t.kind = "delete"
    THEN SubSeq(there, (IF t.ids < Len(there) THEN t.ids ELSE Len(there)) + 1,
                Len(there))
    ELSE IF t.ids > 1 \/ ~Payload(t).ex THEN there
    ELSE IF t.ids = 0 THEN Append(there, Payload(t))
    ELSE IF there = <<>> THEN there
    ELSE <<Payload(t)>> \o Tail(there)

\* the thread's create, update or delete request, and its end
ThreadFinish(i) ==
    /\ UNCHANGED <<drive_vars, fn_vars>>
    /\ UNCHANGED <<inputs, prompt>>
    /\ i \in 1 .. Len(threads)
    /\ threads[i].tpc = "queried"
    /\ remote' = [remote EXCEPT ![threads[i].file] = Served(threads[i], @)]
    /\ threads' = RemoveAt(threads, i)
    /\ UNCHANGED <<pc, wn_from, wn_none, wn_result, files, disk, pre_loaded,
                   convert_key, file_name, save_thread, sp_data, sp_page,
                   decrypted, exit_how, key_vars>>

---------------------------------------------------------------------------
(* encryption.convert, call by call on one file *)

\* the contents the file may have before the first call (inputs): missing,
\* empty, plaintext, a token of either key, a token of a token, and a token
\* that was tampered with and validates under no key
ConvertFiles ==
    {Absent, EmptyFile, Plain(<<1>>),
     FernetEncrypt(Plain(<<1>>), "k1"),
     FernetEncrypt(Plain(<<1>>), "k2"),
     FernetEncrypt(FernetEncrypt(Plain(<<1>>), "k1"), "k1"),
     [ex |-> TRUE, data |-> <<1>>, layers |-> <<"tampered">>]}

ConversionTypes == {"encrypt", "decrypt"}
StorageTypes == {"write", "return"}

\* convert(file_name, conversion_type, file_path, storage_type) as one call
ConvertCall(conversion_type, storage_type) ==
    /\ UNCHANGED <<drive_vars, app_rest, reg_vars>>
    /\ Len(cv_hist) < MaxConverts
    /\ cv_loads' = IF convert_key = "none" THEN cv_loads + 1 ELSE cv_loads
    /\ \E k \in KeyChoices :
          /\ KeyLoaded(k)
          /\ LET r == Convert(cv_file, k, conversion_type, storage_type)
             IN /\ cv_file' = r.file
                /\ cv_hist' = Append(cv_hist,
                       [ct |-> conversion_type, st |-> storage_type, key |-> k,
                        onfile |-> keyfile, before |-> cv_file,
                        after |-> r.file, exc |-> r.exc, ret |-> r.ret])

\* another process runs _generate_key on the same path: the key file now
\* holds the key k it drew
KeyFileRewritten(k) ==
    /\ UNCHANGED <<drive_vars, app_vars, fn_vars>>
    /\ keyfile \in Keys
    /\ keyfile # k
    /\ keyfile' = k
    /\ UNCHANGED <<lk_pc, lk_new, lk_got, lk_loads, key_writes, overlapped>>

---------------------------------------------------------------------------
(* functions.py and encryption.py: the registry functions, call by call *)

\* the page names and passwords typed in SpecRegistry (inputs)
RegistryPages == Pages \cup {TabName}
VerifyInputs == PromptInputs \cup {"max"}

\* the stored strings verify_password is called with (inputs): hashes, a
\* string shorter than a salt and the empty string
StoredStrings ==
    {get_password_hash(w, "s1") : w \in Passwords \cup {"max"}}
        \cup {get_password_hash("pw1", "s2"), <<"y.txt">>, <<>>}

\* the lines of the registry file of content c, decrypted with key k and split
RegistryData(c, k) == Convert(c, k, "decrypt", "return").ret.data

\* _store_password(file_name, password) on the registry file of content c
\* with key k and the salt drawn: the exception raised and the content left
StorePassword(c, k, page, pw, salt) ==
    LET password_data == Convert(c, k, "decrypt", "return")
        data == Append(password_data.ret.data,
                       RegistryLine(page, get_password_hash(pw, salt)))
    IN IF password_data.exc # "none"
       THEN [exc |-> password_data.exc, file |-> c]
       ELSE [exc |-> "none",
             file |-> Convert(Plain(data), k, "encrypt", "write").file]

\* one call of a registry function, as rg_hist records it
RegistryCall(op, page, pw, stored, after, out, derived) ==
    [op |-> op, page |-> page, pw |-> pw, stored |-> stored,
     before |-> disk[PwFile], after |-> after, out |-> out, derived |-> derived]

\* the variables of the interactive program a registry function leaves alone
registry_rest == <<pc, wn_from, wn_none, wn_result, files, pre_loaded, remote,
                   file_name, save_thread, sp_data, sp_page, decrypted,
                   exit_how, inputs>>

\* _store_password(page, pw) as one call, with the upload thread it starts
RegistryStore(page, pw, salt) ==
    /\ UNCHANGED <<drive_vars, conv_vars, registry_rest, prompt>>
    /\ Len(rg_hist) < MaxRegistryCalls
    /\ Len(threads) + 1 <= MaxThreads
    /\ \E k \in KeyChoices :
          /\ KeyLoaded(k)
          /\ LET r == StorePassword(disk[PwFile], k, page, pw, salt)
             IN /\ disk' = [disk EXCEPT ![PwFile] = r.file]
                /\ threads' = IF r.exc # "none" THEN threads
                              ELSE Append(threads,
                                     SaveThread("_store_password", PwFile,
                                                FALSE, Absent))
                /\ rg_hist' = Append(rg_hist,
                       RegistryCall("store", page, pw, <<>>, r.file, r.exc, 1))

\* _prompt_password(page) as one call, pw being typed if a password is asked
RegistryPrompt(page, pw) ==
    /\ UNCHANGED <<drive_vars, conv_vars, registry_rest, disk, threads>>
    /\ Len(rg_hist) < MaxRegistryCalls
    /\ \E k \in KeyChoices :
          /\ KeyLoaded(k)
          /\ prompt' = Prompted(page, pw, disk[PwFile], k)
          /\ LET entry == RegistryLookup(RegistryData(disk[PwFile], k), page)
             IN rg_hist' = Append(rg_hist,
                    RegistryCall("prompt", page, Prompted(page, pw, disk[PwFile], k).pw,
                        entry.stored, disk[PwFile],
                        PromptPassword(page, pw, disk[PwFile], k),
                        IF entry.found
                        THEN VerifyPassword(pw, entry.stored).derived ELSE 0))

\* the string form of a Python result
Str(b) == IF b THEN "True" ELSE "False"

\* verify_password(provided_password, stored_password) as one call
VerifyCall(provided_password, stored_password) ==
    /\ UNCHANGED <<drive_vars, key_vars, app_vars, conv_vars>>
    /\ Len(rg_hist) < MaxRegistryCalls
    /\ LET v == VerifyPassword(provided_password, stored_password)
       IN rg_hist' = Append(rg_hist,
              RegistryCall("verify", "none", provided_password, stored_password,
                  disk[PwFile], IF v.exc # "none" THEN v.exc ELSE Str(v.ret),
                  v.derived))

---------------------------------------------------------------------------
(* The specifications *)

\* no convert call and no registry call has been made
FnIdle ==
    /\ cv_file = Absent /\ cv_hist = <<>> /\ cv_loads = 0
    /\ rg_hist = <<>>

DriveIdle ==
    /\ DriveFresh
    /\ calls = 0 /\ r_parents = 1 /\ r_inside = 0 /\ r_outside = 0

AppIdle ==
    /\ pc = "start" /\ wn_from = "main" /\ wn_none = FALSE /\ wn_result = "None"
    /\ pre_loaded = FALSE /\ convert_key = "none" /\ threads = <<>>
    /\ file_name = "None" /\ save_thread = "None" /\ sp_data = <<>>
    /\ sp_page = "none" /\ decrypted = {} /\ exit_how = "none" /\ inputs = 0
    /\ prompt = NoPrompt

AppEmpty ==
    /\ files = <<>>
    /\ disk = [f \in FileNames |-> Absent]
    /\ remote = [f \in FileNames |-> <<>>]

\* the state main reaches before it calls which_notes: the remote pages are
\* listed in files and downloaded to Storage
Init ==
    /\ AppIdle
    /\ DriveIdle
    /\ lk_pc = [c \in Callers |-> "idle"]
    /\ lk_new = [c \in Callers |-> "none"]
    /\ lk_got = [c \in Callers |-> "none"]
    /\ lk_loads = [c \in Callers |-> 0]
    /\ key_writes = 0
    /\ overlapped = FALSE
    /\ FnIdle
    /\ \/ keyfile = "absent" /\ AppEmpty
       \/ /\ keyfile = "k1"
          /\ \E page \in {EmptyFile, FernetEncrypt(Plain(<<1>>), "k1")},
                registry \in {<<>>,
                    <<FernetEncrypt(Plain(<<RegistryLine("a.txt",
                        get_password_hash("pw1", "s1"))>>), "k1")>>} :
                /\ files = <<"a.txt">>
                /\ disk = [f \in FileNames |-> IF f = "a.txt" THEN page ELSE Absent]
                /\ remote = [f \in FileNames |->
                                IF f = "a.txt" THEN <<page>>
                                ELSE IF f = PwFile THEN registry ELSE <<>>]

Next ==
    \/ MainCallsWhichNotes
    \/ WhichNotesQuit
    \/ WhichNotesAgain
    \/ \E page \in Pages : CreatePage(page)
    \/ \E page \in Pages, pw \in Passwords, salt \in Salts :
          CreatePageWithPassword(page, pw, salt)
    \/ StorePasswordWrite
    \/ StorePasswordEncrypt
    \/ \E i \in 1 .. Cardinality(Pages), pw \in PromptInputs : DeletePage(i, pw)
    \/ \E i \in 1 .. Cardinality(Pages), pw \in PromptInputs : SelectPage(i, pw)
    \/ ListNotesEnter
    \/ ListNotesSwitched
    \/ ListNotesQuit
    \/ ListNotesSelectPage
    \/ \E op \in EditOps : ListNotesEdit(op)
    \/ ListNotesSave
    \/ ListNotesFinally
    \/ \E i \in 1 .. MaxThreads : ThreadQuery(i)
    \/ \E i \in 1 .. MaxThreads : ThreadFinish(i)

Spec == Init /\ [][Next]_vars

InitDrive ==
    /\ DriveFresh
    /\ KeyIdle
    /\ FnIdle
    /\ AppIdle /\ AppEmpty
    /\ calls = 0
    /\ r_parents \in 0 .. MaxRemote
    /\ r_inside \in 0 .. MaxRemote
    /\ r_outside \in 0 .. 1
    /\ (r_parents = 0 => r_inside = 0)

NextDrive ==
    \/ \E parent \in BOOLEAN, listOk \in BOOLEAN : SaveFile(parent, listOk)
    \/ UploadLoopExit
    \/ UploadSucceeds
    \/ \E err \in HttpErrors : UploadFails(err)
    \/ UploadWake
    \/ \E ok \in BOOLEAN, err \in HttpErrors : UpdateFile(ok, err)
    \/ \E parent \in BOOLEAN, listOk \in BOOLEAN : DeleteFile(parent, listOk)

SpecDrive == InitDrive /\ [][NextDrive]_vars

InitKey ==
    /\ KeyIdle
    /\ FnIdle
    /\ DriveIdle
    /\ AppIdle /\ AppEmpty

NextKey ==
    \/ \E c \in Callers : LoadKeyOpen(c)
    \/ \E c \in Callers, k \in Keys : GenerateKeyOpen(c, k)
    \/ \E c \in Callers : GenerateKeyWrite(c)
    \/ \E c \in Callers : LoadKeyReread(c)

SpecKey == InitKey /\ [][NextKey]_vars

\* convert is called on one file of Storage, in a process that has not
\* loaded the key yet; the key file exists or not
InitConvert ==
    /\ AppIdle /\ AppEmpty
    /\ DriveIdle
    /\ lk_pc = [c \in Callers |-> "idle"]
    /\ lk_new = [c \in Callers |-> "none"]
    /\ lk_got = [c \in Callers |-> "none"]
    /\ lk_loads = [c \in Callers |-> 0]
    /\ key_writes = 0
    /\ overlapped = FALSE
    /\ keyfile \in {"absent", "k1"}
    /\ cv_file \in ConvertFiles
    /\ cv_hist = <<>>
    /\ cv_loads = 0
    /\ rg_hist = <<>>

NextConvert ==
    \/ \E ct \in ConversionTypes, st \in StorageTypes : ConvertCall(ct, st)
    \/ \E k \in Keys : KeyFileRewritten(k)

SpecConvert == InitConvert /\ [][NextConvert]_vars

\* the registry functions are called on a Storage that holds the registry
\* file: empty as _preload_password_file creates it, or with one line
InitRegistry ==
    /\ AppIdle
    /\ DriveIdle
    /\ FnIdle
    /\ lk_pc = [c \in Callers |-> "idle"]
    /\ lk_new = [c \in Callers |-> "none"]
    /\ lk_got = [c \in Callers |-> "none"]
    /\ lk_loads = [c \in Callers |-> 0]
    /\ key_writes = 0
    /\ overlapped = FALSE
    /\ keyfile = "k1"
    /\ files = <<>>
    /\ remote = [f \in FileNames |-> <<>>]
    /\ \E registry \in {EmptyFile,
              FernetEncrypt(Plain(<<RegistryLine("a.txt",
                  get_password_hash("pw1", "s1"))>>), "k1")} :
          disk = [f \in FileNames |-> IF f = PwFile THEN registry ELSE Absent]

NextRegistry ==
    \/ \E page \in RegistryPages, pw \in Passwords, salt \in Salts :
          RegistryStore(page, pw, salt)
    \/ \E page \in RegistryPages, pw \in VerifyInputs : RegistryPrompt(page, pw)
    \/ \E pw \in VerifyInputs, stored \in StoredStrings : VerifyCall(pw, stored)
    \/ \E i \in 1 .. MaxThreads : ThreadQuery(i)
    \/ \E i \in 1 .. MaxThreads : ThreadFinish(i)

SpecRegistry == InitRegistry /\ [][NextRegistry]_vars

---------------------------------------------------------------------------
(* Claims about the retry loop and save_file, checked under SpecDrive *)

\* the first write request of the call was answered by this class of error
FirstFailed(kind) ==
    /\ firstAnswer.status \in RetryStatuses \cup OtherStatuses
    /\ kind = IF firstAnswer.status \in RetryStatuses THEN "transient"
              ELSE IF firstAnswer.json THEN "permanent" ELSE "other"

\* C4: when the create request of _upload_file is answered by an error whose
\* status is outside the retry list and whose payload is JSON (a classified
\* permanent error), the call has made exactly one attempt, has not slept,
\* and has ended by returning a failure (not by raising).
C4_PermanentErrorOneAttempt ==
    (sv_path = "create" /\ FirstFailed("permanent"))
        => /\ sv_pc = "done"
           /\ result = "failed"
           /\ attempts = 1
           /\ sleeps = 0
           /\ wait = 0

C4_Witness ==
    /\ sv_path = "create" /\ FirstFailed("permanent")
    /\ sv_pc = "done" /\ attempts = 1

\* C5: when every create request of _upload_file was answered by a retryable
\* error, the loop has issued exactly max_tries requests and ended by
\* printing 'Unable to upload file' and returning, not by raising; no call
\* ever issues more than max_tries requests.
C5_AlwaysTransientExhausts ==
    /\ attempts <= max_tries
    /\ (sv_pc = "done" /\ sv_path = "create" /\ fails = attempts)
          => (attempts = max_tries /\ result = "unable")

C5_Witness ==
    /\ sv_pc = "done" /\ sv_path = "create"
    /\ fails = attempts /\ attempts = max_tries /\ result = "unable"

\* C6: when _upload_file has succeeded after k retryable failures it has
\* issued exactly k+1 requests with k < max_tries, and from the successful
\* request on the call is over: no attempt and no sleep follows it.
C6_SuccessAfterKFailures ==
    (sv_path = "create" /\ result = "ok")
        => /\ sv_pc = "done"
           /\ attempts = fails + 1
           /\ fails < max_tries
           /\ sleeps = fails
           /\ wait = 0

C6_Witness ==
    /\ sv_path = "create" /\ result = "ok" /\ sv_pc = "done"
    /\ fails = 3 /\ attempts = 4

\* C10: every write path of save_file, create and update alike, makes a
\* further attempt after a first request answered by a retryable error.
C10_EveryWriteRetried ==
    (sv_pc = "done" /\ sv_path \in {"create", "update"} /\ FirstFailed("transient"))
        => attempts > 1

---------------------------------------------------------------------------
(* Claims about the key file, checked under SpecKey *)

\* C7: on a path that starts without a key file, at most one key is ever
\* written, and two callers that have both returned from their first
\* _load_key hold the same key bytes.
C7_OneKeyUnderConcurrentFirstUse ==
    /\ key_writes <= 1
    /\ (\A c \in Callers : lk_pc[c] = "returned" /\ lk_loads[c] = 1)
          => lk_got[1] = lk_got[2]

---------------------------------------------------------------------------
(* Claims about the interactive program, checked under Spec *)

\* thread i is a gdrive.save_file upload of file f that has not completed
Uploading(i, f) ==
    /\ i \in 1 .. Len(threads)
    /\ threads[i].kind = "save"
    /\ threads[i].file = f

\* C1: at no moment are two background save_file uploads of the same page in
\* flight: an upload of a page is started only when every earlier upload of
\* that page has completed.
C1_OneUploadPerPageInFlight ==
    \A f \in Pages : \A i, j \in 1 .. Len(threads) :
        (Uploading(i, f) /\ Uploading(j, f)) => i = j

\* C2: when the program has left list_notes, every page file list_notes
\* decrypted that still exists is empty or encrypted exactly once: not in
\* plaintext, not encrypted twice.
C2_PagesEncryptedOnceAtExit ==
    pc = "exited" =>
        \A f \in decrypted :
            disk[f].ex => (IsEmpty(disk[f]) \/ Len(disk[f].layers) = 1)

\* C3: every payload an upload has sent to the remote store, for a page or
\* for the registry, is empty or a CipherBlob: never the plaintext that
\* _store_password or list_notes holds in the local file meanwhile.
C3_UploadsNeverSendPlaintext ==
    \A f \in FileNames : \A i \in 1 .. Len(remote[f]) :
        IsEmpty(remote[f][i]) \/ remote[f][i].layers # <<>>

\* C8: _store_password cycles on the registry file serialize: while one
\* cycle is between its decrypt and its encrypt, no upload started by an
\* earlier cycle is still in flight.
C8_RegistryCyclesSerialize ==
    pc \in {"sp_write", "sp_encrypt"} =>
        \A i \in 1 .. Len(threads) : ~Uploading(i, PwFile)

\* C9: the registry holds at most one record per page identifier, whatever
\* pages were created with a password and deleted.
C9_OneRecordPerPage ==
    \A i, j \in 1 .. Len(disk[PwFile].data) :
        LineName(disk[PwFile].data[i]) = LineName(disk[PwFile].data[j]) => i = j

\* the line of page p in the registry as this step's _prompt_password reads it
RecordNow(p) ==
    RegistryLookup(Convert(disk[PwFile], convert_key', "decrypt", "return").ret.data,
                   p)

\* this step ends a which_notes call that selected page p
SelectedNow(p) ==
    /\ pc = "which" /\ pc' = "wn_return"
    /\ (wn_result' = p \/ (wn_result' = "None" /\ prompt'.page = p))

\* this step removes page p from files
DeletedNow(p) ==
    /\ InFiles(p)
    /\ \A i \in 1 .. Len(files') : files'[i] # p

\* C11: a page that has a line in the password registry is returned by
\* which_notes or removed by _delete_page only in a step in which a password
\* was asked for that page, had an accepted length and derives, with the
\* stored salt, to the stored hash; so after a failed verification the page
\* is neither opened nor deleted.
C11_RegistryGatesOpenAndDelete ==
    [][\A p \in Pages :
          ((SelectedNow(p) \/ DeletedNow(p)) /\ RecordNow(p).found)
              => /\ prompt'.page = p
                 /\ prompt'.pw # "none"
                 /\ PasswordLen(prompt'.pw) <= MaxPasswordLen
                 /\ Derive(prompt'.pw, StoredSalt(RecordNow(p).stored))
                        = StoredHash(RecordNow(p).stored)]_vars

C11_Witness ==
    /\ pc = "wn_return" /\ wn_result = "a.txt"
    /\ prompt = [page |-> "a.txt", pw |-> "pw1"]

\* C12: every which_notes call that returns, rather than leaving the
\* process, returns the name of a page that is in files, also when an
\* incorrect password was entered before a page was selected.
C12_WhichNotesReturnsAPage ==
    pc = "wn_return" => InFiles(wn_result)

---------------------------------------------------------------------------
(* Claims about the registry functions, checked under SpecRegistry *)

\* C13: after _store_password(page, pw) on a registry that has no line for
\* page, decrypting and parsing the registry yields a line for page whose
\* stored string verifies against pw, and the lines present before are all
\* still there, unchanged and in the same order.
C13_StoreThenLookup ==
    \A n \in 1 .. Len(rg_hist) :
        LET call == rg_hist[n]
            was == RegistryData(call.before, convert_key)
            now == RegistryData(call.after, convert_key)
        IN (/\ call.op = "store" /\ call.out = "none"
            /\ ~RegistryLookup(was, call.page).found)
               => /\ RegistryLookup(now, call.page).found
                  /\ verify_password(call.pw,
                                     RegistryLookup(now, call.page).stored)
                  /\ Len(now) = Len(was) + 1
                  /\ SubSeq(now, 1, Len(was)) = was

---------------------------------------------------------------------------
(* Further claims about the retry loop, checked under SpecDrive *)

\* C14: when a create request of _upload_file is answered by an error whose
\* status is outside the retry list and whose payload is not JSON, the call
\* ends at once by raising that error: the failing request is the last one,
\* no sleep follows it, and every request before it was a retryable failure
\* followed by one sleep, however many of them there were.
C14_UnclassifiedErrorRaisedAtOnce ==
    (/\ sv_path = "create"
     /\ lastOther.status \in OtherStatuses
     /\ ~lastOther.json)
        => /\ sv_pc = "done"
           /\ result = "raised"
           /\ wait = 0
           /\ attempts = fails + 1
           /\ sleeps = fails

C14_Witness ==
    /\ sv_path = "create" /\ sv_pc = "done" /\ result = "raised"
    /\ lastOther = [status |-> 404, json |-> FALSE]
    /\ fails = 2 /\ attempts = 3 /\ sleeps = 2

---------------------------------------------------------------------------
(* Claims about convert, checked under SpecConvert *)

\* the bytes of content c are a Fernet token made with key k
TokenOf(c, k) == c.layers # <<>> /\ Head(c.layers) = k

\* C15: a convert call in 'decrypt' mode on a file that exists, is not empty
\* and does not hold a token made with the key the call uses (plaintext, a
\* tampered token, a token of another key) raises an exception, leaves the
\* file's content as it was and returns nothing.
C15_DecryptOfForeignBytesFails ==
    \A n \in 1 .. Len(cv_hist) :
        LET call == cv_hist[n]
        IN (/\ call.ct = "decrypt"
            /\ call.before.ex
            /\ call.before # EmptyFile
            /\ ~TokenOf(call.before, call.key))
               => /\ call.exc # "none"
                  /\ call.after = call.before
                  /\ call.ret = Absent

C15_Witness ==
    /\ Len(cv_hist) = 3
    /\ \A n \in 1 .. 3 : cv_hist[n].ct = "decrypt" /\ cv_hist[n].exc = "InvalidToken"
    /\ cv_hist[1].key = "k1"
    /\ cv_hist[1].before = FernetEncrypt(Plain(<<1>>), "k2")
    /\ cv_hist[2].st = "write" /\ cv_hist[3].st = "return"
    /\ cv_file = FernetEncrypt(Plain(<<1>>), "k2")

\* C16: for a file that exists and is not empty, a convert 'encrypt' call
\* with storage_type 'write' followed at once by a 'decrypt' call on the
\* same file leaves the file, when the decrypt writes, with exactly the
\* content it had before the encrypt, and returns exactly that content when
\* the decrypt is in 'return' mode.
C16_EncryptThenDecryptRestores ==
    \A n \in 1 .. Len(cv_hist) - 1 :
        LET enc == cv_hist[n]
            dec == cv_hist[n + 1]
        IN (/\ enc.ct = "encrypt" /\ enc.st = "write"
            /\ enc.before.ex /\ enc.before # EmptyFile
            /\ dec.ct = "decrypt")
               => /\ dec.exc = "none"
                  /\ dec.st = "write" => dec.after = enc.before
                  /\ dec.st = "return" => dec.ret = enc.before

C16_Witness ==
    /\ Len(cv_hist) = 4
    /\ cv_hist[1].before = Plain(<<1>>)
    /\ cv_hist[1].ct = "encrypt" /\ cv_hist[1].st = "write"
    /\ cv_hist[2].ct = "decrypt" /\ cv_hist[2].st = "return"
    /\ cv_hist[2].ret = Plain(<<1>>)
    /\ cv_hist[3].ct = "decrypt" /\ cv_hist[3].st = "write"
    /\ cv_hist[3].onfile # cv_hist[3].key
    /\ cv_file = Plain(<<1>>)

\* C18: within one process convert calls _load_key at most once, and every
\* convert call uses the key the first call loaded, also when the key file
\* holds another key by then.
C18_KeyLoadedOnce ==
    /\ cv_loads <= 1
    /\ \A n \in 1 .. Len(cv_hist) :
          /\ cv_hist[n].key = cv_hist[1].key
          /\ convert_key = cv_hist[1].key
          /\ cv_loads = 1

C18_Witness ==
    /\ Len(cv_hist) = 2
    /\ cv_hist[2].onfile \in Keys
    /\ cv_hist[2].onfile # cv_hist[1].key
    /\ cv_hist[2].key = cv_hist[1].key
    /\ cv_loads = 1

\* C19: a convert call on an empty file raises nothing, returns empty bytes
\* and leaves the file empty, for both conversion types and both storage
\* types: no Fernet token is made of empty input.
C19_EmptyFilePassesThrough ==
    \A n \in 1 .. Len(cv_hist) :
        cv_hist[n].before = EmptyFile
            => /\ cv_hist[n].exc = "none"
               /\ cv_hist[n].ret = EmptyFile
               /\ cv_hist[n].after = EmptyFile

C19_Witness ==
    /\ cv_file = EmptyFile
    /\ \A ct \in ConversionTypes, st \in StorageTypes :
          \E n \in 1 .. Len(cv_hist) :
              /\ cv_hist[n].ct = ct /\ cv_hist[n].st = st
              /\ cv_hist[n].before = EmptyFile /\ cv_hist[n].ret = EmptyFile

---------------------------------------------------------------------------
(* Further claims about the key file, checked under SpecKey *)

\* C17: as long as no _load_key call has started while another was running,
\* on a path that starts without a key file: the key file is written once,
\* by the first call, never truncated or written again, and every call that
\* has returned holds the bytes of the key file, so all calls return the
\* same key.
C17_SequentialLoadsReturnOneKey ==
    ~overlapped =>
        /\ key_writes <= 1
        /\ \A c \in Callers :
              lk_pc[c] = "returned"
                  => /\ keyfile \in Keys
                     /\ lk_got[c] = keyfile
                     /\ key_writes = 1

C17_Witness ==
    /\ ~overlapped
    /\ key_writes = 1
    /\ \A c \in Callers : lk_pc[c] = "returned" /\ lk_loads[c] = 2
    /\ lk_got[1] = lk_got[2]

---------------------------------------------------------------------------
(* Further claims about the registry functions, checked under SpecRegistry *)

\* the call ran verify_password: directly, or from _prompt_password for a
\* page that has a line in the registry
Verified(call) ==
    call.op = "verify" \/ (call.op = "prompt" /\ call.pw # "none")

\* C20: a verify_password call with a provided password of more than 1024
\* characters raises ValueError without running a key derivation, whatever
\* the stored string is; a call with a password of at most 1024 characters
\* does not raise it.
C20_LongPasswordRejectedFirst ==
    \A n \in 1 .. Len(rg_hist) :
        LET call == rg_hist[n]
        IN Verified(call) =>
              IF PasswordLen(call.pw) > MaxPasswordLen
              THEN call.out = "ValueError" /\ call.derived = 0
              ELSE call.out \in {"True", "False"} /\ call.derived = 1

C20_Witness ==
    /\ Len(rg_hist) = 2
    /\ rg_hist[1].op = "verify" /\ rg_hist[1].pw = "long"
    /\ rg_hist[1].stored = <<>> /\ rg_hist[1].out = "ValueError"
    /\ rg_hist[2].op = "verify" /\ rg_hist[2].pw = "max"
    /\ rg_hist[2].stored = get_password_hash("max", "s1")
    /\ rg_hist[2].out = "True"

\* C21: verify_password called with a password p of at most 1024
\* characters and a string get_password_hash made of p, with whatever salt,
\* returns True; called with another password of at most 1024 characters and
\* that string, it returns False.
C21_VerifyAcceptsExactlyTheHashedPassword ==
    \A n \in 1 .. Len(rg_hist) :
        \A p \in Passwords \cup {"max"}, salt \in {"s1", "s2"} :
            LET call == rg_hist[n]
            IN (/\ call.op = "verify"
                /\ call.stored = get_password_hash(p, salt)
                /\ PasswordLen(call.pw) <= MaxPasswordLen)
                   => call.out = (IF call.pw = p THEN "True" ELSE "False")

C21_Witness ==
    /\ Len(rg_hist) = 2
    /\ rg_hist[1].op = "verify" /\ rg_hist[1].pw = "pw1"
    /\ rg_hist[1].stored = get_password_hash("pw1", "s2")
    /\ rg_hist[1].out = "True"
    /\ rg_hist[2].op = "verify" /\ rg_hist[2].pw = "pw2"
    /\ rg_hist[2].stored = get_password_hash("pw1", "s2")
    /\ rg_hist[2].out = "False"

---------------------------------------------------------------------------
(* Claims about the backoff of the retry loop, checked under SpecDrive *)

\* C22: every sleep of _upload_file lasts k slots of slot_time, k an integer
\* from 0 to 2^n - 1 where n is the number of failed requests of the call so
\* far, the one just answered included; n grows by one from sleep to sleep,
\* so the upper end grows strictly, and no sleep lasts more than
\* 2^max_tries - 1 slots.
C22_BackoffRange ==
    sv_pc = "upload_sleep" =>
        /\ fails = try_counter
        /\ sleeps = fails
        /\ fails \in 1 .. max_tries
        /\ wait \in 0 .. (2 ^ fails - 1)
        /\ wait <= 2 ^ max_tries - 1

C22_Witness ==
    /\ sv_pc = "upload_sleep"
    /\ fails = 3 /\ attempts = 3
    /\ wait = 7

---------------------------------------------------------------------------
(* Claims about delete_file and save_file, checked under SpecDrive *)

\* C23: a delete_file call that is given a parent_folder name leaves every
\* remote file of the name that is not inside a folder of that name as it
\* was, also when no folder of that name exists.
C23_DeleteStaysInsideParent ==
    [][(calls' = calls + 1 /\ sv_path' = "delete" /\ sv_parent')
          => r_outside' = r_outside]_vars

\* C24: in a sequence of save_file calls made one after the other, the
\* number of files of the name inside the parent folder stays at most one
\* once it is at most one; a step of a save_file call changes the remote
\* files only by creating one file, and only when the call found none of
\* that name (inside the one folder of the parent's name when a parent is
\* given): a call that finds one file updates it, and a call that finds
\* several, or no parent folder or several, changes nothing.
C24_SaveKeepsOneFile ==
    [][/\ r_inside <= 1 => r_inside' <= 1
       /\ r_parents' = r_parents
       /\ (sv_path' # "delete" /\ <<r_inside', r_outside'>> # <<r_inside, r_outside>>)
             => IF sv_parent
                THEN /\ r_parents = 1
                     /\ r_inside = 0 /\ r_inside' = 1
                     /\ r_outside' = r_outside
                ELSE /\ r_inside + r_outside = 0
                     /\ r_outside' = 1
                     /\ r_inside' = r_inside]_vars

C24_Witness ==
    /\ calls = 2
    /\ sv_parent /\ r_parents = 1
    /\ sv_path = "update" /\ sv_pc = "done" /\ result = "ok"
    /\ r_inside = 1

---------------------------------------------------------------------------
(* Further claims about the interactive program, checked under Spec *)

\* C25: _preload_password_file fetches the registry at most once per
\* process. Its first call leaves pre_loaded set and the local registry file
\* holding what download_file fetched, or empty when there is no remote
\* registry; once pre_loaded is set it stays set, and from then on the local
\* registry file changes only where _store_password writes its lines and
\* where it encrypts them, never by another download.
C25_RegistryFetchedOnce ==
    [][/\ (~pre_loaded /\ pre_loaded')
            => disk'[PwFile] = Downloaded(remote[PwFile], disk[PwFile])
       /\ pre_loaded
            => /\ pre_loaded'
               /\ disk'[PwFile] # disk[PwFile]
                     => \/ /\ pc = "sp_write"
                           /\ disk'[PwFile] = Plain(sp_data)
                        \/ /\ pc = "sp_encrypt"
                           /\ disk'[PwFile]
                                 = [disk[PwFile] EXCEPT !.layers = <<convert_key'>>]]_vars

C25_Witness ==
    /\ pre_loaded
    /\ pc = "which"
    /\ inputs = 2
    /\ remote[PwFile] = <<>>
    /\ disk[PwFile].layers # <<>>

\* C27: once _delete_page has removed a page, the registry holds no line
\* for it: whenever which_notes waits for an input, every line of the local
\* registry names a page that is in files, so that a page created later
\* under the name of a deleted one and without a password is opened without
\* a password prompt.
C27_NoRecordOfDeletedPage ==
    pc = "which" =>
        \A n \in 1 .. Len(disk[PwFile].data) :
            \E p \in Pages :
                LineName(disk[PwFile].data[n]) = <<p>> /\ InFiles(p)

---------------------------------------------------------------------------
(* A further claim about the retry loop, checked under SpecDrive *)

\* C26: _upload_file sleeps only between two requests: whenever it sleeps,
\* fewer than max_tries requests have failed, so another request follows the
\* sleep; after the failure of the last permitted request it reports
\* 'Unable to upload file' without sleeping first.
C26_SleepOnlyBetweenAttempts ==
    sv_pc = "upload_sleep" => try_counter < max_tries

===========================================================================
